---- MODULE Spec2Model ----
(***************************************************************************)
(* A model of the CodeQL-database extension: the two command entry points, *)
(* updateDb, the stale-database reaper (cleanupOldDb / cleanupDbFolder),   *)
(* the external `codeql database create` process and its event handlers,  *)
(* and loadDatabase.  The repository holds two variants of the same       *)
(* extension: "A" is src/extension.js (execFile with an argument list),   *)
(* "B" is src/unnamed/part_000 (spawn of a shell command line).           *)
(*                                                                         *)
(* Strings.  A file name is a tuple of chunks, <<"proj">> or               *)
(* <<"sample_", "1">>: the prefix "sample_" is a chunk of its own whenever  *)
(* the name starts with it, so startsWith and the concatenation            *)
(* "sample_" + Date.now() are operations on chunks.  A path string is a   *)
(* sequence of tokens: file names, the separator SEP and the special      *)
(* segments DOT and DOTDOT.  "/proj/../proj" is                            *)
(* <<SEP, <<"proj">>, SEP, DOTDOT, SEP, <<"proj">>>>.                       *)
(***************************************************************************)
EXTENDS Integers, Sequences, FiniteSets, TLC

VARIABLES
    variant,   \* which source file is loaded: "A" or "B"
    fs0,       \* the filesystem when the host invoked the first command
    fs,        \* the filesystem: absolute segment list -> node
    clock,     \* the last value Date.now() returned
    faults,    \* filesystem faults the environment may still inject
    wf,        \* per workflow: the state of buildCodeqlDb / updateDb
    rp,        \* per workflow: the state of cleanupOldDb / cleanupDbFolder
    proc,      \* per workflow: the external process and the awaited promise
    current    \* the host's "current database" slot

vars == <<variant, fs0, fs, clock, faults, wf, rp, proc, current>>

\* Largest value Date.now() returns in the model.
MaxClock == 3
\* Filesystem faults (EACCES, EIO, ...) injected per run.
MaxFaults == 1

Workflows == {1, 2}

---------------------------------------------------------------------------
(* Paths: node's path.isAbsolute, path.normalize, path.join, path.resolve  *)
(* (posix), on token sequences.                                            *)

SEP == <<"/">>
DOT == <<".">>
DOTDOT == <<"..">>
NoPath == <<>>

\* process.cwd(), which path.resolve prepends to a relative path.
CWD == <<SEP, <<"home">>>>

IsAbsolute(p) == Len(p) > 0 /\ p[1] = SEP

Last(s) == s[Len(s)]
Front(s) == SubSeq(s, 1, Len(s) - 1)

\* normalizeString: the segments of p with "" and "." dropped and ".."
\* resolved; above the root ".." is kept only if allowAboveRoot.
RECURSIVE NormalizeFrom(_, _, _, _)
NormalizeFrom(p, i, res, allowAboveRoot) ==
    IF i > Len(p) THEN res
    ELSE LET t == p[i] IN
         IF t = SEP \/ t = DOT THEN NormalizeFrom(p, i + 1, res, allowAboveRoot)
         ELSE IF t = DOTDOT
              THEN IF Len(res) > 0 /\ Last(res) # DOTDOT
                   THEN NormalizeFrom(p, i + 1, Front(res), allowAboveRoot)
                   ELSE IF allowAboveRoot
                        THEN NormalizeFrom(p, i + 1, Append(res, DOTDOT), allowAboveRoot)
                        ELSE NormalizeFrom(p, i + 1, res, allowAboveRoot)
              ELSE NormalizeFrom(p, i + 1, Append(res, t), allowAboveRoot)

NormalizeString(p, allowAboveRoot) == NormalizeFrom(p, 1, <<>>, allowAboveRoot)

\* The segments joined by the separator.
RECURSIVE JoinSegs(_)
JoinSegs(segs) ==
    IF Len(segs) = 0 THEN <<>>
    ELSE IF Len(segs) = 1 THEN segs
    ELSE <<segs[1], SEP>> \o JoinSegs(Tail(segs))

PathNormalize(p) ==
    IF Len(p) = 0 THEN <<DOT>>
    ELSE LET abs == IsAbsolute(p)
             trailing == Last(p) = SEP
             segs == NormalizeString(p, ~abs)
         IN IF Len(segs) = 0
            THEN (IF abs THEN <<SEP>> ELSE IF trailing THEN <<DOT, SEP>> ELSE <<DOT>>)
            ELSE (IF abs THEN <<SEP>> ELSE <<>>) \o JoinSegs(segs)
                 \o (IF trailing THEN <<SEP>> ELSE <<>>)

\* path.join(a, b)
PathJoin(a, b) ==
    LET joined == IF Len(a) = 0 THEN b
                  ELSE IF Len(b) = 0 THEN a
                  ELSE a \o <<SEP>> \o b
    IN IF Len(joined) = 0 THEN <<DOT>> ELSE PathNormalize(joined)

\* path.resolve(p)
PathResolve(p) ==
    LET full == IF IsAbsolute(p) THEN p ELSE CWD \o <<SEP>> \o p
    IN <<SEP>> \o JoinSegs(NormalizeString(full, FALSE))

\* sanitizePath returns the path, or throws Error('Invalid path').
SanitizeOk(inputPath) ==
    LET absolutePath == PathResolve(inputPath)
    IN IsAbsolute(inputPath) /\ inputPath = absolutePath

\* file.startsWith("sample_")
StartsWithSample(file) == Len(file) > 0 /\ file[1] = "sample_"

\* "sample_" + Date.now()
SampleName(now) == <<"sample_", ToString(now)>>

---------------------------------------------------------------------------
(* The filesystem.  A node is keyed by the segments of its absolute path;  *)
(* the entries of a directory are the nodes one segment below it.          *)

Dir == [kind |-> "dir"]
File == [kind |-> "file"]
Link == [kind |-> "link"]

\* The node a path string names, as the kernel looks it up.
Segs(p) == NormalizeString(PathResolve(p), FALSE)

Exists(f, p) == Segs(p) \in DOMAIN f

\* The names of the entries of directory q (a segment list).
Entries(f, q) ==
    {Last(r) : r \in {x \in DOMAIN f : Len(x) = Len(q) + 1 /\ Front(x) = q}}

\* Every sequence that lists the members of S once.
RECURSIVE Orders(_)
Orders(S) ==
    IF S = {} THEN {<<>>}
    ELSE UNION {{<<x>> \o rest : rest \in Orders(S \ {x})} : x \in S}

\* fs.promises.readdir: an error, or the names in the directory in an order
\* the filesystem chooses; Readdir is the set of arrays a call may return.
ReaddirOk(f, p) == Exists(f, p) /\ f[Segs(p)].kind = "dir"
Readdir(f, p) == Orders(Entries(f, Segs(p)))

\* fs.promises.lstat(p).isDirectory(): a symbolic link is not followed.
LstatOk(f, p) == Exists(f, p)
IsDirectory(f, p) == f[Segs(p)].kind = "dir"

\* The filesystem with node q (a segment list) removed.
RemoveNode(f, q) == [r \in DOMAIN f \ {q} |-> f[r]]

\* The filesystem with node q added.
AddNode(f, q, node) ==
    [r \in DOMAIN f \cup {q} |-> IF r = q THEN node ELSE f[r]]

\* fs.promises.unlink: removes a file or a link, fails on a directory.
UnlinkOk(f, p) == Exists(f, p) /\ f[Segs(p)].kind # "dir"
\* fs.promises.rmdir: removes an empty directory.
RmdirOk(f, p) ==
    /\ Exists(f, p)
    /\ f[Segs(p)].kind = "dir"
    /\ Entries(f, Segs(p)) = {}

---------------------------------------------------------------------------
(* Values and inputs.                                                      *)

\* JavaScript's undefined: a dismissed prompt, an omitted argument.
Undefined == "<undefined>"

\* if (command), if (!language): JavaScript truthiness of a prompt's answer.
Truthy(v) == v # Undefined /\ v # ""

Proj == <<"proj">>
Stale1 == <<"sample_", "1">>
Stale0 == <<"sample_", "0">>

\* Folder paths the host may hand to a command: canonical, with a trailing
\* separator, with a traversal segment, relative, and none at all.
RootPath == <<SEP, Proj>>
TrailingPath == <<SEP, Proj, SEP>>
TraversalPath == <<SEP, Proj, SEP, DOTDOT, SEP, Proj>>
RelativePath == <<Proj>>

\* Source trees under /proj.  A stale database with a nested directory
\* beside a directory and a file.
Tree1 ==
    (<<Proj>> :> Dir)
    @@ (<<Proj, Stale1>> :> Dir)
    @@ (<<Proj, Stale1, <<"db.bin">>>> :> File)
    @@ (<<Proj, Stale1, <<"sub">>>> :> Dir)
    @@ (<<Proj, Stale1, <<"sub">>, <<"x">>>> :> File)
    @@ (<<Proj, <<"other">>>> :> Dir)
    @@ (<<Proj, <<"other">>, <<"keep">>>> :> File)
    @@ (<<Proj, <<"notes">>>> :> File)

\* Two stale directories (one holding a symbolic link, one empty), a file,
\* and a prefixed directory below the top level.
Tree2 ==
    (<<Proj>> :> Dir)
    @@ (<<Proj, <<"notes">>>> :> File)
    @@ (<<Proj, Stale0>> :> Dir)
    @@ (<<Proj, Stale0, <<"lnk">>>> :> Link)
    @@ (<<Proj, <<"other">>>> :> Dir)
    @@ (<<Proj, <<"other">>, <<"sample_", "9">>>> :> Dir)
    @@ (<<Proj, Stale1>> :> Dir)

\* An empty source root.
Tree3 == (<<Proj>> :> Dir)

\* One stale database and one ordinary file.
Tree4 ==
    (<<Proj>> :> Dir)
    @@ (<<Proj, Stale1>> :> Dir)
    @@ (<<Proj, Stale1, <<"db.bin">>>> :> File)
    @@ (<<Proj, <<"notes">>>> :> File)

\* A file and a symbolic link whose names have the prefix.
Tree5 ==
    (<<Proj>> :> Dir)
    @@ (<<Proj, <<"sample_", "f">>>> :> File)
    @@ (<<Proj, <<"sample_", "l">>>> :> Link)

\* What one run draws its inputs from.
AllInputs ==
    [ paths    |-> {RootPath, TrailingPath, TraversalPath, RelativePath, NoPath},
      include  |-> BOOLEAN,
      langs    |-> {"java", "javascript", Undefined},
      commands |-> {"make", "", Undefined},
      spawns   |-> {"running", "failed"},
      codes    |-> {0, 1},
      registrar |-> {"done", "rejected"} ]

\* Two workflows on the same source root.
ConcInputs ==
    [ paths    |-> {RootPath},
      include  |-> {TRUE},
      langs    |-> {"java"},
      commands |-> {"make"},
      spawns   |-> {"running"},
      codes    |-> {0, 1},
      registrar |-> {"done"} ]

---------------------------------------------------------------------------
(* State.                                                                  *)

IdleWf ==
    [ pc |-> "idle",              \* position in buildCodeqlDb / updateDb
      includeCommand |-> FALSE,
      fsPath |-> NoPath,          \* uri.fsPath, the sourceRoot of updateDb
      language |-> Undefined,
      command |-> Undefined,
      updateDbCalled |-> FALSE,
      database |-> NoPath,        \* let database
      cmd |-> <<>>,               \* let cmd, as handed to the process launcher
      spawns |-> 0,               \* external commands started
      regs |-> <<>>,              \* calls of codeQL.setCurrentDatabase
      host |-> "none",            \* the codeQL.setCurrentDatabase call:
                                  \* none, pending, done, rejected
      unhandled |-> FALSE,        \* a rejection nobody awaits
      infoShown |-> FALSE,        \* showInformationMessage("Finished ...")
      errorShown |-> FALSE,       \* showErrorMessage("No folder path available.")
      logged |-> 0 ]              \* console.error in updateDb's catch

IdleRp ==
    [ pc |-> "off",               \* position in cleanupOldDb
      root |-> NoPath,            \* sanitizedFolderPath
      sanitized |-> FALSE,
      listed |-> FALSE,           \* readdir of the source root succeeded
      listing |-> {},             \* the names readdir returned
      files |-> <<>>,             \* the entries the for loop has not finished
      total |-> 0,                \* totalFiles
      processed |-> 0,            \* processedFiles
      reports |-> 0,              \* progress.report calls
      progress |-> 0,             \* sum of the increments reported, in 1/total
      stack |-> <<>>,             \* the cleanupDbFolder activations
      deleted |-> {},             \* what unlink and rmdir removed
      errors |-> 0,               \* console.error calls
      errEntries |-> {} ]         \* top-level entries whose handling raised

IdleProc ==
    [ state |-> "none",           \* none, running, exited, failed (spawn error)
      code |-> 0,
      created |-> FALSE,          \* the tool has written its database
      dispatched |-> FALSE,       \* the 'exit' / 'error' listeners have run
      uncaught |-> FALSE,         \* a listener threw
      promise |-> "none" ]        \* the promise updateDb awaits

Trees == {Tree1, Tree2, Tree3, Tree5}

Init ==
    /\ variant \in {"A", "B"}
    /\ fs0 \in Trees
    /\ fs = fs0
    /\ clock = 2
    /\ faults = MaxFaults
    /\ wf = [w \in Workflows |-> IdleWf]
    /\ rp = [w \in Workflows |-> IdleRp]
    /\ proc = [w \in Workflows |-> IdleProc]
    /\ current = NoPath

InitConc ==
    /\ variant \in {"A", "B"}
    /\ fs0 = Tree4
    /\ fs = fs0
    /\ clock = 2
    /\ faults = 0
    /\ wf = [w \in Workflows |-> IdleWf]
    /\ rp = [w \in Workflows |-> IdleRp]
    /\ proc = [w \in Workflows |-> IdleProc]
    /\ current = NoPath

---------------------------------------------------------------------------
(* The reaper: cleanupOldDb and cleanupDbFolder.  Each action is one       *)
(* filesystem call and the code up to the next one.                        *)

\* An injected fault makes a call fail that would have succeeded.
FaultChoices == IF faults > 0 THEN {FALSE, TRUE} ELSE {FALSE}
Spend(fault) == IF fault THEN faults - 1 ELSE faults

\* The activation of cleanupDbFolder(folderPath) on entry.
NewFrame(folderPath) ==
    [folder |-> folderPath, files |-> <<>>, phase |-> "readdir", cur |-> NoPath]

\* Whether this workflow has already fixed its database path or started the
\* external command.
BuildBegun(w) == wf[w].database # NoPath \/ proc[w].state # "none"

\* The test of line 88 without its startsWith: every directory is reaped.
IsStaleEntryAnyDir(f, curPath, file) == IsDirectory(f, curPath)
\* curStat.isDirectory() && file.startsWith("sample_")
IsStaleEntry(f, curPath, file) ==
    IsDirectory(f, curPath) /\ StartsWithSample(file)

\* (processedFiles / totalFiles) * 100, as an exact fraction.
Percentage(processedFiles, totalFiles) ==
    [num |-> processedFiles * 100, den |-> totalFiles]

\* processedFiles++; progress.report({ increment: percentage }); and the
\* for loop of cleanupOldDb moves to its next file or ends.
TopAdvance(r) ==
    LET processedFiles == r.processed + 1
        rest == Tail(r.files)
    IN [r EXCEPT !.processed = processedFiles,
                 !.progress = @ + Percentage(processedFiles, r.total).num,
                 !.reports = @ + 1,
                 !.files = rest,
                 !.stack = <<>>,
                 !.pc = IF Len(rest) = 0 THEN "done" ELSE "loop"]

\* cleanupDbFolder returns to its caller: the for loop of the activation
\* below it, or the loop of cleanupOldDb.
Return(r) ==
    LET st == Front(r.stack)
    IN IF Len(st) = 0 THEN TopAdvance(r)
       ELSE LET par == Last(st)
                rest == Tail(par.files)
            IN [r EXCEPT !.stack = Append(Front(st),
                    [par EXCEPT !.files = rest,
                                !.phase = IF Len(rest) = 0 THEN "rmdir" ELSE "loop"])]

\* catch (err) in cleanupDbFolder: console.error and return.
FolderCatch(r) ==
    Return([r EXCEPT !.errors = @ + 1,
                     !.errEntries = @ \cup {Head(r.files)}])

\* catch (err) in cleanupOldDb: console.error and return.
CleanupCatch(r) == [r EXCEPT !.errors = @ + 1, !.pc = "done", !.stack = <<>>]

\* cleanupOldDb up to the for loop: sanitizePath, readdir, report(0).
CleanupStart(w) ==
    /\ rp[w].pc = "start"
    /\ LET folderPath == wf[w].fsPath IN
       IF ~SanitizeOk(folderPath)
       THEN /\ rp' = [rp EXCEPT ![w] = CleanupCatch(@)]
            /\ UNCHANGED faults
       ELSE \E fault \in FaultChoices :
            /\ fault => ReaddirOk(fs, folderPath)
            /\ faults' = Spend(fault)
            /\ IF ReaddirOk(fs, folderPath) /\ ~fault
               THEN \E files \in Readdir(fs, folderPath) :
                    rp' = [rp EXCEPT ![w] =
                        [@ EXCEPT !.root = folderPath,
                                  !.sanitized = TRUE,
                                  !.listed = TRUE,
                                  !.listing = Entries(fs, Segs(folderPath)),
                                  !.files = files,
                                  !.total = Len(files),
                                  !.processed = 0,
                                  !.reports = 1,
                                  !.pc = IF Len(files) = 0 THEN "done" ELSE "loop"]]
               ELSE rp' = [rp EXCEPT ![w] =
                        CleanupCatch([@ EXCEPT !.root = folderPath,
                                               !.sanitized = TRUE])]
    /\ UNCHANGED <<variant, fs0, fs, clock, wf, proc, current>>

\* One turn of the for loop of cleanupOldDb: lstat, then cleanupDbFolder is
\* entered for a stale directory, and any other entry only advances progress.
CleanupLstat(w) ==
    /\ rp[w].pc = "loop"
    /\ LET file == Head(rp[w].files)
           curPath == PathJoin(rp[w].root, <<file>>)
       IN \E fault \in FaultChoices :
          /\ fault => LstatOk(fs, curPath)
          /\ faults' = Spend(fault)
          /\ IF LstatOk(fs, curPath) /\ ~fault
             THEN IF IsStaleEntry(fs, curPath, file)
                  THEN rp' = [rp EXCEPT ![w] =
                          [@ EXCEPT !.pc = "folder",
                                    !.stack = <<NewFrame(curPath)>>]]
                  ELSE rp' = [rp EXCEPT ![w] = TopAdvance(@)]
             ELSE rp' = [rp EXCEPT ![w] =
                          CleanupCatch([@ EXCEPT !.errEntries = @ \cup {file}])]
    /\ UNCHANGED <<variant, fs0, fs, clock, wf, proc, current>>

\* cleanupDbFolder: readdir(folderPath).
FolderReaddir(w) ==
    /\ rp[w].pc = "folder"
    /\ Last(rp[w].stack).phase = "readdir"
    /\ LET fr == Last(rp[w].stack) IN
       \E fault \in FaultChoices :
          /\ fault => ReaddirOk(fs, fr.folder)
          /\ faults' = Spend(fault)
          /\ IF ReaddirOk(fs, fr.folder) /\ ~fault
             THEN \E files \in Readdir(fs, fr.folder) :
                  rp' = [rp EXCEPT ![w].stack = Append(Front(@),
                          [fr EXCEPT !.files = files,
                                     !.phase = IF Len(files) = 0 THEN "rmdir" ELSE "loop"])]
             ELSE rp' = [rp EXCEPT ![w] = FolderCatch(@)]
    /\ UNCHANGED <<variant, fs0, fs, clock, wf, proc, current>>

\* One turn of the for loop of cleanupDbFolder up to the unlink: sanitizePath
\* of the joined path, lstat, and the recursive call for a directory.
FolderLstat(w) ==
    /\ rp[w].pc = "folder"
    /\ Last(rp[w].stack).phase = "loop"
    /\ LET fr == Last(rp[w].stack)
           joined == PathJoin(fr.folder, <<Head(fr.files)>>)
       IN IF ~SanitizeOk(joined)
          THEN /\ rp' = [rp EXCEPT ![w] = FolderCatch(@)]
               /\ UNCHANGED faults
          ELSE \E fault \in FaultChoices :
               /\ fault => LstatOk(fs, joined)
               /\ faults' = Spend(fault)
               /\ IF LstatOk(fs, joined) /\ ~fault
                  THEN IF IsDirectory(fs, joined)
                       THEN rp' = [rp EXCEPT ![w].stack = Append(@, NewFrame(joined))]
                       ELSE rp' = [rp EXCEPT ![w].stack = Append(Front(@),
                               [fr EXCEPT !.phase = "unlink", !.cur = joined])]
                  ELSE rp' = [rp EXCEPT ![w] = FolderCatch(@)]
    /\ UNCHANGED <<variant, fs0, fs, clock, wf, proc, current>>

\* cleanupDbFolder: unlink(curPath) and the loop's next turn.
FolderUnlink(w) ==
    /\ rp[w].pc = "folder"
    /\ Last(rp[w].stack).phase = "unlink"
    /\ LET fr == Last(rp[w].stack)
           rest == Tail(fr.files)
       IN \E fault \in FaultChoices :
          /\ fault => UnlinkOk(fs, fr.cur)
          /\ faults' = Spend(fault)
          /\ IF UnlinkOk(fs, fr.cur) /\ ~fault
             THEN /\ fs' = RemoveNode(fs, Segs(fr.cur))
                  /\ rp' = [rp EXCEPT
                        ![w].deleted = @ \cup
                            {[path |-> Segs(fr.cur), late |-> BuildBegun(w)]},
                        ![w].stack = Append(Front(@),
                            [fr EXCEPT !.files = rest,
                                       !.cur = NoPath,
                                       !.phase = IF Len(rest) = 0 THEN "rmdir" ELSE "loop"])]
             ELSE /\ rp' = [rp EXCEPT ![w] = FolderCatch(@)]
                  /\ UNCHANGED fs
    /\ UNCHANGED <<variant, fs0, clock, wf, proc, current>>

\* cleanupDbFolder: rmdir(folderPath) after the loop, and the return.
FolderRmdir(w) ==
    /\ rp[w].pc = "folder"
    /\ Last(rp[w].stack).phase = "rmdir"
    /\ LET fr == Last(rp[w].stack) IN
       \E fault \in FaultChoices :
          /\ fault => RmdirOk(fs, fr.folder)
          /\ faults' = Spend(fault)
          /\ IF RmdirOk(fs, fr.folder) /\ ~fault
             THEN /\ fs' = RemoveNode(fs, Segs(fr.folder))
                  /\ rp' = [rp EXCEPT ![w] =
                        Return([@ EXCEPT !.deleted = @ \cup
                            {[path |-> Segs(fr.folder), late |-> BuildBegun(w)]}])]
             ELSE /\ rp' = [rp EXCEPT ![w] = FolderCatch(@)]
                  /\ UNCHANGED fs
    /\ UNCHANGED <<variant, fs0, clock, wf, proc, current>>

---------------------------------------------------------------------------
(* The entry points and updateDb.                                          *)

\* await updateDb(language.value, uri.fsPath, command): updateDb runs up to
\* its first await, the call of cleanupOldDb.
CallUpdateDb(r) == [r EXCEPT !.updateDbCalled = TRUE, !.pc = "cleanup"]

\* The host runs one of the two registered commands on a folder.
HostInvoke(w, in) ==
    /\ wf[w].pc = "idle"
    /\ \E fsPath \in in.paths, includeCommand \in in.include :
          wf' = [wf EXCEPT ![w] =
              IF fsPath = NoPath
              THEN [@ EXCEPT !.errorShown = TRUE, !.pc = "returned"]
              ELSE [@ EXCEPT !.fsPath = fsPath,
                             !.includeCommand = includeCommand,
                             !.pc = "pickLanguage"]]
    /\ UNCHANGED <<variant, fs0, fs, clock, faults, rp, proc, current>>

\* showQuickPick answers; without a build-command prompt updateDb follows.
PickLanguage(w, in) ==
    /\ wf[w].pc = "pickLanguage"
    /\ \E language \in in.langs :
          IF ~Truthy(language)
          THEN /\ wf' = [wf EXCEPT ![w].pc = "returned"]
               /\ UNCHANGED rp
          ELSE IF wf[w].includeCommand
               THEN /\ wf' = [wf EXCEPT ![w].language = language,
                                        ![w].pc = "inputCommand"]
                    /\ UNCHANGED rp
               ELSE /\ wf' = [wf EXCEPT ![w] =
                               CallUpdateDb([@ EXCEPT !.language = language,
                                                      !.command = Undefined])]
                    /\ rp' = [rp EXCEPT ![w].pc = "start"]
    /\ UNCHANGED <<variant, fs0, fs, clock, faults, proc, current>>

\* showInputBox answers, and updateDb is called with the answer.
InputCommand(w, in) ==
    /\ wf[w].pc = "inputCommand"
    /\ \E command \in in.commands :
          wf' = [wf EXCEPT ![w] = CallUpdateDb([@ EXCEPT !.command = command])]
    /\ rp' = [rp EXCEPT ![w].pc = "start"]
    /\ UNCHANGED <<variant, fs0, fs, clock, faults, proc, current>>

\* let cmd: the argument list of variant A, the words of the command line of
\* variant B.
BuildCmd(v, database, language, sourceRoot, command) ==
    [ shell |-> (v = "B"),
      argv |-> <<"codeql", "database", "create", database,
                 <<"--language=", language>>, "--source-root", sourceRoot>>
               \o (IF Truthy(command)
                   THEN <<"--command", command>>
                   ELSE <<"--build-mode=none">>)
               \o <<"--overwrite">> ]

\* cleanupOldDb(sourceRoot) called without await.
AwaitCleanupNone(w) == TRUE
\* await cleanupOldDb(sourceRoot)
AwaitCleanup(w) == rp[w].pc = "done"

\* updateDb after the cleanup: Date.now(), sanitizePath of the joined path
\* (a failure leaves updateDb as a rejection), and the command.
ComputeDatabase(w) ==
    /\ wf[w].pc = "cleanup"
    /\ AwaitCleanup(w)
    /\ \E now \in clock .. MaxClock :
          /\ clock' = now
          /\ LET joined == PathJoin(wf[w].fsPath, <<SampleName(now)>>) IN
             wf' = [wf EXCEPT ![w] =
                 IF SanitizeOk(joined)
                 THEN [@ EXCEPT !.database = joined,
                                !.cmd = BuildCmd(variant, joined, wf[w].language,
                                                 wf[w].fsPath, wf[w].command),
                                !.pc = "execute"]
                 ELSE [@ EXCEPT !.pc = "threw"]]
    /\ UNCHANGED <<variant, fs0, fs, faults, rp, proc, current>>

\* executeCommand(cmd) / codeqlCmd(cmd) up to the returned promise:
\* child_process.execFile or spawn, which starts the tool or fails to.
StartCommand(w, in) ==
    /\ wf[w].pc = "execute"
    /\ \E outcome \in in.spawns :
          proc' = [proc EXCEPT ![w].state = outcome, ![w].promise = "pending"]
    /\ wf' = [wf EXCEPT ![w].spawns = @ + 1, ![w].pc = "await"]
    /\ UNCHANGED <<variant, fs0, fs, clock, faults, rp, current>>

\* The tool writes its database directory (argument 4 of the command).
ProcCreate(w) ==
    /\ proc[w].state = "running"
    /\ ~proc[w].created
    /\ LET db == Segs(wf[w].cmd.argv[4])
           f1 == IF db \in DOMAIN fs THEN fs ELSE AddNode(fs, db, Dir)
           bin == Append(db, <<"db.bin">>)
       IN fs' = IF bin \in DOMAIN f1 THEN f1 ELSE AddNode(f1, bin, File)
    /\ proc' = [proc EXCEPT ![w].created = TRUE]
    /\ UNCHANGED <<variant, fs0, clock, faults, wf, rp, current>>

\* The tool exits: with any code once it wrote the database, with a
\* nonzero code before.
ProcExit(w, in) ==
    /\ proc[w].state = "running"
    /\ \E code \in in.codes :
          /\ code = 0 => proc[w].created
          /\ proc' = [proc EXCEPT ![w].state = "exited", ![w].code = code]
    /\ UNCHANGED <<variant, fs0, fs, clock, faults, wf, rp, current>>

\* resolve and reject settle a promise once.
Settle(promise, outcome) == IF promise = "pending" THEN outcome ELSE promise

\* Variant A: 'exit' is emitted before execFile's callback runs, so
\* resolve(code) settles the promise for every exit code, and the callback's
\* reject(error) comes too late; a spawn error emits no 'exit' and the
\* callback rejects.
DispatchA(p) ==
    IF p.state = "exited"
    THEN LET afterExit == Settle(p.promise, "resolved")
             afterCallback == IF p.code # 0
                              THEN Settle(Settle(afterExit, "rejected"), "resolved")
                              ELSE Settle(afterExit, "resolved")
         IN [p EXCEPT !.dispatched = TRUE, !.promise = afterCallback]
    ELSE [p EXCEPT !.dispatched = TRUE,
                   !.promise = Settle(Settle(@, "rejected"), "resolved")]

\* Variant B: the 'exit' listener evaluates the undeclared `stderr` when
\* code != 0 and throws before reject is called; code 0 resolves; the
\* 'error' listener rejects.
DispatchB(p) ==
    IF p.state = "exited"
    THEN IF p.code # 0
         THEN [p EXCEPT !.dispatched = TRUE, !.uncaught = TRUE]
         ELSE [p EXCEPT !.dispatched = TRUE, !.promise = Settle(@, "resolved")]
    ELSE [p EXCEPT !.dispatched = TRUE, !.promise = Settle(@, "rejected")]

\* The event loop runs the listeners of the terminated process.
Dispatch(w) ==
    /\ proc[w].state \in {"exited", "failed"}
    /\ ~proc[w].dispatched
    /\ proc' = [proc EXCEPT ![w] =
                   IF variant = "A" THEN DispatchA(@) ELSE DispatchB(@)]
    /\ UNCHANGED <<variant, fs0, fs, clock, faults, wf, rp, current>>

\* executeCommand(cmd) / codeqlCmd(cmd) called without await.
AwaitCommandNone(w) == TRUE
\* await executeCommand(cmd) / await codeqlCmd(cmd)
AwaitCommand(w) == proc[w].promise # "pending"

\* Whether loadDatabase runs once the command's promise has settled.  In
\* variant A a rejection goes to updateDb's catch; in variant B codeqlCmd
\* catches the rejection itself and its .then always runs.
Loads(v, promise) == IF v = "A" THEN promise # "rejected" ELSE TRUE

\* The rest of updateDb up to the host command: loadDatabase(database)
\* calls codeQL.setCurrentDatabase, or the catch logs the rejected command.
\* Variant A does not await the host command, so loadDatabase and updateDb
\* return at once; variant B awaits it.
AfterCommand(w) ==
    /\ wf[w].pc = "await"
    /\ AwaitCommand(w)
    /\ IF Loads(variant, proc[w].promise)
       THEN wf' = [wf EXCEPT
                  ![w].regs = Append(@,
                      [path |-> wf[w].database,
                       reaperDone |-> rp[w].pc = "done",
                       exited |-> proc[w].state = "exited"]),
                  ![w].host = "pending",
                  ![w].pc = IF variant = "A" THEN "returned" ELSE "loading"]
       ELSE wf' = [wf EXCEPT ![w].logged = @ + 1, ![w].pc = "returned"]
    /\ UNCHANGED <<variant, fs0, fs, clock, faults, rp, proc, current>>

\* The host settles codeQL.setCurrentDatabase: it sets the current database,
\* or rejects (the command is not registered).  In variant A nobody awaits
\* the call and a rejection stays unhandled; in variant B loadDatabase goes
\* on to showInformationMessage and updateDb returns, or the rejection
\* reaches the catch of updateDb.
HostSettles(w, in) ==
    /\ wf[w].host = "pending"
    /\ \E outcome \in in.registrar :
          /\ current' = IF outcome = "done" THEN Last(wf[w].regs).path ELSE current
          /\ wf' = [wf EXCEPT ![w] =
                IF variant = "A"
                THEN [@ EXCEPT !.host = outcome,
                               !.unhandled = (outcome = "rejected")]
                ELSE IF outcome = "done"
                     THEN [@ EXCEPT !.host = outcome,
                                    !.infoShown = TRUE,
                                    !.pc = "returned"]
                     ELSE [@ EXCEPT !.host = outcome,
                                    !.logged = @ + 1,
                                    !.pc = "returned"]]
    /\ UNCHANGED <<variant, fs0, fs, clock, faults, rp, proc>>

---------------------------------------------------------------------------
(* Specifications.                                                         *)

Step(w, in) ==
    \/ HostInvoke(w, in)
    \/ PickLanguage(w, in)
    \/ InputCommand(w, in)
    \/ CleanupStart(w)
    \/ CleanupLstat(w)
    \/ FolderReaddir(w)
    \/ FolderLstat(w)
    \/ FolderUnlink(w)
    \/ FolderRmdir(w)
    \/ ComputeDatabase(w)
    \/ StartCommand(w, in)
    \/ ProcCreate(w)
    \/ ProcExit(w, in)
    \/ Dispatch(w)
    \/ AfterCommand(w)
    \/ HostSettles(w, in)

\* One user action, with every input and with filesystem faults.
Next == Step(1, AllInputs)
Spec == Init /\ [][Next]_vars

\* Two user actions on the same folder, interleaved.
NextConc == \E w \in Workflows : Step(w, ConcInputs)
ConcSpec == InitConc /\ [][NextConc]_vars

---------------------------------------------------------------------------
(* Claims.                                                                 *)

\* The external process of w ended without success: a nonzero exit code or
\* a spawn error.
ToolFailed(w) ==
    \/ proc[w].state = "failed"
    \/ proc[w].state = "exited" /\ proc[w].code # 0

\* C1: when the external process exits with a nonzero code or fails to
\* spawn, the build step rejects (once the listeners have run) and
\* codeQL.setCurrentDatabase is never called for that invocation (in both
\* variants).
C1_RegistrarOnlyAfterExitZero ==
    \A w \in Workflows :
        ToolFailed(w) => /\ Len(wf[w].regs) = 0
                         /\ proc[w].dispatched => proc[w].promise = "rejected"

\* A node of the tree the command was invoked on that is a top-level
\* "sample_" directory of /proj or lies below one.
UnderStale(q) ==
    /\ Len(q) >= 2
    /\ q[1] = Proj
    /\ StartsWithSample(q[2])
    /\ <<Proj, q[2]>> \in DOMAIN fs0
    /\ fs0[<<Proj, q[2]>>].kind = "dir"

\* The reaper of w ran to its end on a sanitized source root without any
\* filesystem error, and the external tool has not yet touched the tree.
CleanRun(w) ==
    /\ rp[w].pc = "done"
    /\ rp[w].sanitized
    /\ rp[w].errors = 0
    /\ proc[w].state = "none"

\* C2: a cleanupOldDb without filesystem error ends with no top-level
\* "sample_" directory of the source root, nor anything below one, left, and
\* with every other entry and its contents unchanged; and whatever the
\* reaper has removed so far, in any state, is such a directory or below one.
C2_ReaperRemovesExactlyStale ==
    \A w \in Workflows :
        /\ \A d \in rp[w].deleted : UnderStale(d.path)
        /\ CleanRun(w) =>
              /\ DOMAIN fs = {q \in DOMAIN fs0 : ~UnderStale(q)}
              /\ \A q \in DOMAIN fs : fs[q] = fs0[q]

\* A clean run on the tree with a nested stale database: its four nodes are
\* gone, the neighbours are there.
C2_Witness ==
    /\ CleanRun(1)
    /\ fs0 = Tree1
    /\ Cardinality(rp[1].deleted) = 4
    /\ <<Proj, Stale1>> \notin DOMAIN fs
    /\ <<Proj, <<"other">>, <<"keep">>>> \in DOMAIN fs

\* C3: for a sourceRoot that fails sanitization updateDb aborts the build:
\* nothing is deleted, no external command is started, nothing registered.
C3_InvalidRootAborts ==
    \A w \in Workflows :
        (wf[w].updateDbCalled /\ ~SanitizeOk(wf[w].fsPath)) =>
            /\ rp[w].deleted = {}
            /\ wf[w].spawns = 0
            /\ Len(wf[w].regs) = 0

\* C4: in the entry point with a build command, a dismissed language
\* prompt, a dismissed build-command prompt or an empty build command
\* aborts the workflow: updateDb is not called.
C4_DismissedPromptAborts ==
    \A w \in Workflows :
        (/\ wf[w].includeCommand
         /\ wf[w].pc \notin {"idle", "pickLanguage", "inputCommand"}
         /\ (~Truthy(wf[w].language) \/ ~Truthy(wf[w].command))) =>
            ~wf[w].updateDbCalled

\* C5: updateDb never raises to its caller.
C5_UpdateDbNeverRaises ==
    \A w \in Workflows : wf[w].pc # "threw"

\* C6: an invocation starts at most one external command; when the process
\* exited with code 0, the registrar is called exactly once by the time
\* updateDb returns, with the database path given to the command, which is
\* sourceRoot joined with a "sample_" name, and the call came after the
\* reaper had finished and the process had exited.
C6_RegistersOnceAfterSuccess ==
    \A w \in Workflows :
        /\ wf[w].spawns <= 1
        /\ (proc[w].state = "exited" /\ proc[w].code = 0) =>
              /\ Len(wf[w].regs) <= 1
              /\ wf[w].pc = "returned" => Len(wf[w].regs) = 1
              /\ \A i \in DOMAIN wf[w].regs :
                    /\ wf[w].regs[i].path = wf[w].cmd.argv[4]
                    /\ Front(Segs(wf[w].regs[i].path)) = Segs(wf[w].fsPath)
                    /\ StartsWithSample(Last(Segs(wf[w].regs[i].path)))
                    /\ wf[w].regs[i].reaperDone
                    /\ wf[w].regs[i].exited

\* An invocation that cleaned up, built with exit code 0 and registered.
C6_Witness ==
    /\ proc[1].state = "exited"
    /\ proc[1].code = 0
    /\ wf[1].pc = "returned"
    /\ Len(wf[1].regs) = 1
    /\ current = wf[1].database
    /\ rp[1].deleted # {}

\* C7: the sum of the increments reported during cleanupOldDb after k of N
\* children is (k / N) * 100 (here in units of 1/N), so at most 100.
C7_ProgressProportional ==
    \A w \in Workflows :
        (rp[w].listed /\ rp[w].total >= 1) =>
            /\ rp[w].progress = rp[w].processed * 100
            /\ rp[w].progress <= 100 * rp[w].total

\* C8: a filesystem error on one entry is logged and only that entry is
\* skipped: once cleanupOldDb has returned, every stale directory that was
\* listed and whose own handling raised no error is removed.
C8_BestEffortPerEntry ==
    \A w \in Workflows :
        (rp[w].pc = "done" /\ rp[w].listed) =>
            \A n \in rp[w].listing :
                (UnderStale(<<Proj, n>>) /\ n \notin rp[w].errEntries) =>
                    <<Proj, n>> \notin DOMAIN fs

\* C9: within one invocation every removal by the reaper precedes the
\* choice of the database path and the start of the external command.
C9_ReaperBeforeBuild ==
    \A w \in Workflows :
        /\ \A d \in rp[w].deleted : ~d.late
        /\ BuildBegun(w) => rp[w].pc = "done"

\* q is p or lies below p.
IsPrefix(p, q) == Len(p) <= Len(q) /\ SubSeq(q, 1, Len(p)) = p

\* C9, the race: the reaper of one workflow has removed part of the
\* database another workflow is building or has registered as current.
C9_Witness ==
    \E w \in Workflows, v \in Workflows :
        /\ w # v
        /\ wf[v].database # NoPath
        /\ wf[w].database # wf[v].database
        /\ proc[v].created
        /\ proc[v].state = "running" \/ current = wf[v].database
        /\ \E d \in rp[w].deleted : IsPrefix(Segs(wf[v].database), d.path)

\* C10: once the external process has terminated and its listeners have
\* run, the promise updateDb awaits is settled (so updateDb goes on to
\* return).
C10_SettledAfterTermination ==
    \A w \in Workflows : proc[w].dispatched => proc[w].promise # "pending"

====
